---- MODULE Spec2Model ----
(***************************************************************************)
(* Model of the course-selling Telegram bot in src/main.py: the per-user   *)
(* payment-and-access flow (cmd_start, on_pay, on_text_for_email,          *)
(* on_check), the account store (table tg_users), the payment gateway and  *)
(* the webhook endpoint that starts one handler execution per inbound      *)
(* update.                                                                 *)
(*                                                                         *)
(* The webhook endpoint awaits telegram_app.process_update(update)         *)
(* directly, once per HTTP request; a handler gives up control at every    *)
(* awaited external call (store, gateway, invite creation), so a handler   *)
(* is a sequence of steps, one per awaited call, and the handlers of       *)
(* requests that are in flight together interleave at those steps.         *)
(***************************************************************************)
EXTENDS Integers, Sequences, FiniteSets, TLC

\* ------------------------------------------------------------------ bounds
\* Telegram users that talk to the bot.
Users == {1}
\* Webhook requests that can be in flight together.
Slots == {1, 2}
\* Payments the gateway will create, invite links Telegram will create.
MaxPayments == 2
MaxInvites == 2

PaymentIds == 1..MaxPayments
InviteIds == 1..MaxInvites

\* Telegram users that press broadcast buttons, the chats they do it in, and
\* the accounts the table holds when a broadcast goes out.
Senders == {1, 2}
Chats == {1, 2}
MaxAccounts == 2
Accounts == 1..MaxAccounts

\* ADMIN_IDS, parsed from ADMIN_TELEGRAM_ID at start-up.
ADMIN_IDS == {1}

\* A Python None for a payment id or an invite link; the empty text stands
\* for a missing customer_email (both are falsy in the handlers' tests).
None == 0
NoText == << >>

\* ------------------------------------------------------------ free text
\* A message text is a sequence of characters.
TextGood == <<"a", "@", "b", ".", "c", "o">>
TextPadded == <<" ", "a", "@", "b", ".", "c", "o", " ">>
TextNotAnEmail == <<"n", "o", "t", "-", "a", "n", "-", "e", "m", "a", "i", "l">>
TextNoTld == <<"a", "@", "b">>
TextInnerSpace == <<"a", " ", "b", "@", "c", ".", "d">>
TextNoLocal == <<"@", "b", ".", "c">>
TextTwoAts == <<"a", "@", "b", "@", "c", ".", "d">>
TextInputs ==
    {TextGood, TextPadded, TextNotAnEmail, TextNoTld, TextInnerSpace,
     TextNoLocal, TextTwoAts}

IsSpace(c) == c \in {" ", "\n", "\t"}

\* str.strip(): drop leading and trailing whitespace.
RECURSIVE LStrip(_)
LStrip(t) ==
    IF t # << >> /\ IsSpace(Head(t)) THEN LStrip(Tail(t)) ELSE t

RECURSIVE RStrip(_)
RStrip(t) ==
    IF t # << >> /\ IsSpace(t[Len(t)]) THEN RStrip(SubSeq(t, 1, Len(t) - 1)) ELSE t

Strip(t) == RStrip(LStrip(t))

\* A character of the class [^@\s].
EmailChar(c) == c # "@" /\ ~IsSpace(c)

\* (as it would be for ^[^@\s]+@[^@\s]+$, the top-level domain not required)
EMAIL_RE_NoTld(t) ==
    \E i \in 1..Len(t) :
        /\ t[i] = "@"
        /\ 1 < i
        /\ i < Len(t)
        /\ \A k \in 1..Len(t) : (k # i) => EmailChar(t[k])

\* EMAIL_RE.match(t) for ^[^@\s]+@[^@\s]+\.[^@\s]+$ : some "@" at i and some
\* "." at j split t into three non-empty runs of [^@\s].
EMAIL_RE(t) ==
    \E i \in 1..Len(t) : \E j \in 1..Len(t) :
        /\ t[i] = "@"
        /\ t[j] = "."
        /\ 1 < i
        /\ i + 1 < j
        /\ j < Len(t)
        /\ \A k \in 1..Len(t) : (k # i) => EmailChar(t[k])

\* -------------------------------------------------------------- gateway
\* Statuses of a payment at the gateway; "none": not created yet.
OpenStatuses == {"pending"}
FinalStatuses == {"succeeded", "canceled"}

\* The statuses on_check answers with "not completed yet" and a retry button.
\* (as it would be with waiting_for_capture left out of the test)
RetryStatuses_PendingOnly == {"pending"}

RetryStatuses == {"pending", "waiting_for_capture"}

\* What Payment.find_one(...).status can hold when on_check asks: the
\* gateway's documented statuses, the same in another spelling, a status the
\* handler has no branch for, and no status at all.
RawStatuses ==
    {"succeeded", "pending", "waiting_for_capture", "canceled",
     "SUCCEEDED", " pending ", "Canceled", "refunded", ""}

\* (as it would be with the status returned as the gateway spells it)
StatusLowerStrip_Identity(raw) == raw

\* str(status or "").lower().strip() on the spellings of RawStatuses.
StatusLowerStrip(raw) ==
    CASE raw = "SUCCEEDED" -> "succeeded"
      [] raw = " pending " -> "pending"
      [] raw = "Canceled" -> "canceled"
      [] OTHER -> raw

\* ---------------------------------------------------------------- state
VARIABLES
    paymentsEnabled,  \* PAYMENTS_ENABLED, fixed at start-up
    db,               \* table tg_users: one record per telegram_id
    awaiting,         \* context.user_data["awaiting_email_for_payment"], per user
    pay,              \* the gateway's payments: id -> [owner, email, status, urlShown]
    nInv,             \* invite links Telegram has created so far
    h,                \* the handler execution of each in-flight webhook request
    conv,             \* broadcast_conv: the conversation of each (chat, user)
    user_data,        \* context.user_data["bcast_paid"], ["bcast_text"], per user
    run,              \* the on_broadcast_send execution in progress
    shown,            \* the last message a broadcast step showed, and to whom
    last,             \* how the last webhook request that ended has ended
    edit              \* the edit_main_message call in progress

\* The payment flow's variables and the broadcast flow's.
pvars == <<paymentsEnabled, db, awaiting, pay, nInv, h>>
bvars == <<conv, user_data, run, shown>>
wvars == <<last, edit>>
vars ==
    <<paymentsEnabled, db, awaiting, pay, nInv, h, conv, user_data, run, shown,
      last, edit>>

\* A row of tg_users. row = FALSE: no row for that telegram_id yet.
NoRow ==
    [row |-> FALSE, customer_email |-> NoText, last_payment_id |-> None,
     paid |-> FALSE, invite_link |-> None]

\* No payment under that id yet. urlShown: the bot has shown the user the
\* payment's confirmation URL, so the user can pay it.
NoPayment ==
    [owner |-> None, email |-> NoText, status |-> "none", urlShown |-> FALSE]

\* A free webhook slot. paidAtStart is history, read by no handler: whether
\* the account's record had paid=true when the update came in.
Idle ==
    [kind |-> "idle", user |-> None, pc |-> "idle", email |-> NoText,
     pid |-> None, inv |-> None, reply |-> <<"none", None>>,
     paidAtStart |-> FALSE]

\* No conversation: the key (chat, user) is not in the handler's table.
\* chosen and entered are history, read by no handler: the audience chosen
\* and the text entered in this conversation.
NoConv == [state |-> "END", chosen |-> "unset", entered |-> NoText]

\* user_data without a broadcast draft.
NoDraft == [bcast_paid |-> "unset", bcast_text |-> NoText]

\* No on_broadcast_send in progress. log is history: the chat ids
\* send_message was called with, in the order of the calls.
NoRun ==
    [pc |-> "idle", chat |-> None, user |-> None, paid |-> FALSE,
     text |-> NoText, user_ids |-> << >>, total |-> 0, sent |-> 0,
     failed |-> 0, log |-> << >>]

NoShown ==
    [chat |-> None, user |-> None, kind |-> "none", total |-> 0, sent |-> 0,
     failed |-> 0]

\* No webhook request has ended yet. status: the HTTP status of the
\* response; raised: an exception left the handler of the update.
NoResponse == [status |-> None, raised |-> FALSE]

\* No edit_main_message call. caption, text: whether q.message has a
\* caption, a text; body, keyboard: the arguments; tried: the edits
\* attempted, in order, each with what it sent; done: the edits that went
\* through; logged: the log entries written.
NoEdit ==
    [pc |-> "idle", caption |-> FALSE, text |-> FALSE, body |-> NoText,
     keyboard |-> "none", tried |-> << >>, done |-> << >>, logged |-> << >>]

InitWebhookIdle ==
    /\ last = NoResponse
    /\ edit = NoEdit

\* Nothing of the broadcast flow has happened yet.
InitBroadcastIdle ==
    /\ conv = [c \in Chats |-> [u \in Senders |-> NoConv]]
    /\ user_data = [u \in Senders |-> NoDraft]
    /\ run = NoRun
    /\ shown = NoShown

Init ==
    /\ InitBroadcastIdle
    /\ InitWebhookIdle
    /\ paymentsEnabled \in BOOLEAN
    /\ db = [u \in Users |-> NoRow]
    /\ awaiting = [u \in Users |-> FALSE]
    /\ pay = [p \in PaymentIds |-> NoPayment]
    /\ nInv = 0
    /\ h = [s \in Slots |-> Idle]

\* ------------------------------------------------------------ the store
\* db_get_user: the row of telegram_id u, or None (NoRow) when there is none.
db_get_user(d, u) == IF d[u].row THEN d[u] ELSE NoRow

\* (as it would be if the upsert replaced the whole row)
db_upsert_started_Replace(d, u) == [d EXCEPT ![u] = [NoRow EXCEPT !.row = TRUE]]

\* db_upsert_started: upsert {telegram_id, username, started_at}.
db_upsert_started(d, u) == [d EXCEPT ![u].row = TRUE]

\* db_set_customer_email: upsert {telegram_id, customer_email}.
db_set_customer_email(d, u, email) ==
    [d EXCEPT ![u].row = TRUE, ![u].customer_email = email]

\* (as it would be with last_payment_id left out of the payload)
db_set_last_payment_NoId(d, u, pid) == [d EXCEPT ![u].row = TRUE]

\* db_set_last_payment: upsert {telegram_id, last_payment_id}.
db_set_last_payment(d, u, pid) ==
    [d EXCEPT ![u].row = TRUE, ![u].last_payment_id = pid]

\* (as it would be with invite_link never added to the payload)
db_mark_paid_NoLink(d, u, pid, inv) ==
    [d EXCEPT ![u].row = TRUE, ![u].paid = TRUE, ![u].last_payment_id = pid]

\* (as it would be if the upsert were skipped when there is no invite link)
db_mark_paid_OnlyWithLink(d, u, pid, inv) ==
    IF inv # None
    THEN [d EXCEPT ![u].row = TRUE, ![u].paid = TRUE,
                   ![u].last_payment_id = pid, ![u].invite_link = inv]
    ELSE d

\* db_mark_paid: upsert {telegram_id, paid, paid_at, last_payment_id} and,
\* only when an invite link is given, invite_link.
db_mark_paid(d, u, pid, inv) ==
    [d EXCEPT ![u].row = TRUE,
              ![u].paid = TRUE,
              ![u].last_payment_id = pid,
              ![u].invite_link = IF inv # None THEN inv ELSE @]

\* ---------------------------------------------------------- the gateway
\* The id Payment.create gives the next payment.
NextPaymentId == Cardinality({p \in PaymentIds : pay[p].status # "none"}) + 1

\* yk_create_payment at the gateway: a new pending payment of u's.
yk_create_payment(g, p, u, email) ==
    [g EXCEPT ![p] = [owner |-> u, email |-> email, status |-> "pending",
                      urlShown |-> FALSE]]

\* yk_get_status: str(status or "").lower().strip() of the payment found.
yk_get_status(g, p) == StatusLowerStrip(g[p].status)

\* ------------------------------------------------------------- replies
\* What a handler shows the user: <<kind of message, link or payment shown>>.
Reply(t, v) == <<t, v>>

\* A handler execution of kind k for user u, about to run step pc.
Begin(k, u, pc) ==
    [Idle EXCEPT !.kind = k, !.user = u, !.pc = pc, !.paidAtStart = db[u].paid]

\* The handler returned: its locals are gone, what it showed the user is r.
Finish(hs, r) ==
    [Idle EXCEPT !.kind = hs.kind, !.user = hs.user, !.pc = "done", !.reply = r]

\* ------------------------------------------------------ webhook endpoint
\* telegram_webhook: an inbound update starts a handler execution; nothing
\* in the endpoint waits for the executions already in progress.
ReceiveStart(s, u) ==
    /\ h[s].kind = "idle"
    /\ h' = [h EXCEPT ![s] = Begin("start", u, "start_upsert")]
    /\ UNCHANGED <<bvars, wvars, paymentsEnabled, db, awaiting, pay, nInv>>

\* (as it would be without the PAYMENTS_ENABLED test in on_pay)
ReceivePay_NoSwitch(s, u) ==
    /\ h[s].kind = "idle"
    /\ h' = [h EXCEPT ![s] = Begin("pay", u, "pay_get")]
    /\ UNCHANGED <<bvars, wvars, paymentsEnabled, db, awaiting, pay, nInv>>

ReceivePay(s, u) ==
    /\ h[s].kind = "idle"
    /\ h' = [h EXCEPT ![s] =
                IF ~paymentsEnabled
                THEN Finish(Begin("pay", u, "pay_get"), Reply("disabled", None))
                ELSE Begin("pay", u, "pay_get")]
    /\ UNCHANGED <<bvars, wvars, paymentsEnabled, db, awaiting, pay, nInv>>

ReceiveCheck(s, u) ==
    /\ h[s].kind = "idle"
    /\ h' = [h EXCEPT ![s] =
                IF ~paymentsEnabled
                THEN Finish(Begin("check", u, "check_get"), Reply("disabled", None))
                ELSE Begin("check", u, "check_get")]
    /\ UNCHANGED <<bvars, wvars, paymentsEnabled, db, awaiting, pay, nInv>>

\* telegram_webhook returns Response(200) once process_update has returned.
Respond(s) ==
    /\ h[s].pc = "done"
    /\ h' = [h EXCEPT ![s] = Idle]
    /\ last' = [status |-> 200, raised |-> FALSE]
    /\ UNCHANGED <<bvars, edit, paymentsEnabled, db, awaiting, pay, nInv>>

\* ------------------------------------------------------------ cmd_start
\* safe_thread_call(db_upsert_started): the write lands or is lost; then
\* the welcome message with the main menu.
StartUpsert(s, applied) ==
    /\ h[s].pc = "start_upsert"
    /\ db' = IF applied THEN db_upsert_started(db, h[s].user) ELSE db
    /\ h' = [h EXCEPT ![s] = Finish(h[s], Reply("welcome", None))]
    /\ UNCHANGED <<bvars, wvars, paymentsEnabled, awaiting, pay, nInv>>

\* --------------------------------------------------------------- on_pay
\* user_row and user_row.get("paid"): the short-circuit test of on_pay and
\* on_check (a missing row reads as not paid).
\* (as it would be with the short-circuit left out)
RowPaid_Never(user_row) == FALSE

RowPaid(user_row) == user_row.row /\ user_row.paid

\* not customer_email: no email on file in the row that was read.
\* (as it would be with the email-on-file test left out)
NeedsEmail_Never(user_row) == FALSE

\* (as it would be if on_pay asked for an email every time)
NeedsEmail_Always(user_row) == TRUE

NeedsEmail(user_row) == user_row.customer_email = NoText

\* user_row = await safe_thread_call(db_get_user, ...): the row, or None when
\* the call fails or times out. Then the paid short-circuit, the
\* email-on-file test, or on to the gateway.
PayGet(s, ok) ==
    /\ h[s].pc = "pay_get"
    /\  LET u == h[s].user
            user_row == IF ok THEN db_get_user(db, u) ELSE NoRow
            hs == h[s]
        IN  IF RowPaid(user_row)
            THEN /\ h' = [h EXCEPT ![s] =
                            Finish(hs, Reply("access", user_row.invite_link))]
                 /\ UNCHANGED awaiting
            ELSE IF NeedsEmail(user_row)
            THEN /\ awaiting' = [awaiting EXCEPT ![u] = TRUE]
                 /\ h' = [h EXCEPT ![s] = Finish(hs, Reply("need_email", None))]
            ELSE /\ h' = [h EXCEPT ![s] =
                            [hs EXCEPT !.pc = "pay_create",
                                       !.email = user_row.customer_email]]
                 /\ UNCHANGED awaiting
    /\ UNCHANGED <<bvars, wvars, paymentsEnabled, db, pay, nInv>>

\* (as it would be if a failed gateway call ended the handler with no message)
CreatePayment_SilentFailure(s, ok, next) ==
    LET p == NextPaymentId
    IN  /\ ok => p \in PaymentIds
        /\ pay' = IF ok
                  THEN yk_create_payment(pay, p, h[s].user, h[s].email)
                  ELSE pay
        /\ h' = [h EXCEPT ![s] =
                    IF ok
                    THEN [h[s] EXCEPT !.pc = next, !.pid = p]
                    ELSE Finish(h[s], Reply("none", None))]

\* The gateway call of on_pay and on_text_for_email, under
\* anyio.fail_after(YK_TIMEOUT_SEC): the payment is created and returned, or
\* the call raises or times out and the handler ends with the failure
\* message. (A payment the gateway creates after the wait timed out is shown
\* to nobody and read by no handler; it is left out.) next: the step after a
\* returned payment.
CreatePayment(s, ok, next) ==
    LET p == NextPaymentId
    IN  /\ ok => p \in PaymentIds
        /\ pay' = IF ok
                  THEN yk_create_payment(pay, p, h[s].user, h[s].email)
                  ELSE pay
        /\ h' = [h EXCEPT ![s] =
                    IF ok
                    THEN [h[s] EXCEPT !.pc = next, !.pid = p]
                    ELSE Finish(h[s], Reply("create_failed", None))]

PayCreate(s, ok) ==
    /\ h[s].pc = "pay_create"
    /\ CreatePayment(s, ok, "pay_setlast")
    /\ UNCHANGED <<bvars, wvars, paymentsEnabled, db, awaiting, nInv>>

\* await safe_thread_call(db_set_last_payment, ...): the write lands or is
\* lost, the handler goes on either way and shows the payment URL
\* (pay_keyboard_enabled(pay_url)).
SetLastPayment(s, applied) ==
        /\ db' = IF applied
                 THEN db_set_last_payment(db, h[s].user, h[s].pid)
                 ELSE db
        /\ pay' = [pay EXCEPT ![h[s].pid].urlShown = TRUE]
        /\ h' = [h EXCEPT ![s] = Finish(h[s], Reply("pay_url", h[s].pid))]

PaySetLast(s, applied) ==
    /\ h[s].pc = "pay_setlast"
    /\ SetLastPayment(s, applied)
    /\ UNCHANGED <<bvars, wvars, paymentsEnabled, awaiting, nInv>>

\* ------------------------------------------------------------- on_check
CheckGet(s, ok) ==
    /\ h[s].pc = "check_get"
    /\  LET u == h[s].user
            user_row == IF ok THEN db_get_user(db, u) ELSE NoRow
            hs == h[s]
        IN  h' = [h EXCEPT ![s] =
                    IF ~user_row.row \/ user_row.last_payment_id = None
                    THEN Finish(hs, Reply("no_payment", None))
                    ELSE IF RowPaid(user_row)
                    THEN Finish(hs, Reply("access", user_row.invite_link))
                    ELSE [hs EXCEPT !.pc = "check_status",
                                    !.pid = user_row.last_payment_id]]
    /\ UNCHANGED <<bvars, wvars, paymentsEnabled, db, awaiting, pay, nInv>>

\* status = yk_get_status(payment_id) under anyio.fail_after, then the
\* branch on the status.
CheckStatus(s, ok) ==
    /\ h[s].pc = "check_status"
    /\  LET status == yk_get_status(pay, h[s].pid)
        IN  h' = [h EXCEPT ![s] =
                    IF ~ok
                    THEN Finish(h[s], Reply("check_failed", None))
                    ELSE IF status = "succeeded"
                    THEN [h[s] EXCEPT !.pc = "check_invite"]
                    ELSE IF status \in RetryStatuses
                    THEN Finish(h[s], Reply("not_completed", None))
                    ELSE IF status = "canceled"
                    THEN Finish(h[s], Reply("canceled", None))
                    ELSE Finish(h[s], Reply("status", status))]
    /\ UNCHANGED <<bvars, wvars, paymentsEnabled, db, awaiting, pay, nInv>>

\* context.bot.create_chat_invite_link(member_limit=1) under
\* anyio.fail_after: a fresh link, or an exception (invite_link stays None).
CheckInvite(s, ok) ==
    /\ h[s].pc = "check_invite"
    /\  /\ ok => nInv < MaxInvites
        /\ nInv' = IF ok THEN nInv + 1 ELSE nInv
        /\ h' = [h EXCEPT ![s] =
                    [h[s] EXCEPT !.pc = "check_mark",
                                 !.inv = IF ok THEN nInv + 1 ELSE None]]
    /\ UNCHANGED <<bvars, wvars, paymentsEnabled, db, awaiting, pay>>

\* await safe_thread_call(db_mark_paid, telegram_id, payment_id, invite_link)
\* (invite_link None after a failed invite creation), then the message.
CheckMark(s, applied) ==
    /\ h[s].pc = "check_mark"
    /\  /\ db' = IF applied
                 THEN db_mark_paid(db, h[s].user, h[s].pid, h[s].inv)
                 ELSE db
        /\ h' = [h EXCEPT ![s] =
                    Finish(h[s],
                           IF h[s].inv # None
                           THEN Reply("paid_link", h[s].inv)
                           ELSE Reply("paid_no_link", None))]
    /\ UNCHANGED <<bvars, wvars, paymentsEnabled, awaiting, pay, nInv>>

\* ---------------------------------------------------- on_text_for_email
\* A free-text message: the handler returns at once unless the user is
\* awaiting an email; it rejects a text that is no email; otherwise it
\* clears the flag and goes on to persist the email.
on_text_for_email(s, u, t) ==
    /\ h[s].kind = "idle"
    /\ LET email == Strip(t)
           hs == Begin("text", u, "text_setemail")
       IN  IF ~awaiting[u]
           THEN /\ h' = [h EXCEPT ![s] = Finish(hs, Reply("none", None))]
                /\ UNCHANGED awaiting
           ELSE IF ~EMAIL_RE(email)
           THEN /\ h' = [h EXCEPT ![s] = Finish(hs, Reply("bad_email", None))]
                /\ UNCHANGED awaiting
           ELSE /\ awaiting' = [awaiting EXCEPT ![u] = FALSE]
                /\ h' = [h EXCEPT ![s] = [hs EXCEPT !.email = email]]
    /\ UNCHANGED <<paymentsEnabled, db, pay, nInv>>

\* A free-text message of a user with no broadcast conversation in the
\* enter-text state: on_text_for_email is the only handler that runs.
ReceiveText(s, u, t) ==
    /\ on_text_for_email(s, u, t)
    /\ UNCHANGED <<bvars, wvars>>

\* (as it would be if a lost db_set_customer_email write ended the handler)
TextSetEmail_StopsWhenLost(s, applied) ==
    /\ h[s].pc = "text_setemail"
    /\  LET hs == h[s]
        IN  /\ db' = IF applied
                     THEN db_set_customer_email(db, h[s].user, h[s].email)
                     ELSE db
            /\ h' = [h EXCEPT ![s] =
                        IF ~paymentsEnabled \/ ~applied
                        THEN Finish(hs, Reply("disabled", None))
                        ELSE [hs EXCEPT !.pc = "text_create"]]
    /\ UNCHANGED <<bvars, wvars, paymentsEnabled, awaiting, pay, nInv>>

\* await safe_thread_call(db_set_customer_email, ...), then the
\* PAYMENTS_ENABLED test.
TextSetEmail(s, applied) ==
    /\ h[s].pc = "text_setemail"
    /\  LET hs == h[s]
        IN  /\ db' = IF applied
                     THEN db_set_customer_email(db, h[s].user, h[s].email)
                     ELSE db
            /\ h' = [h EXCEPT ![s] =
                        IF ~paymentsEnabled
                        THEN Finish(hs, Reply("disabled", None))
                        ELSE [hs EXCEPT !.pc = "text_create"]]
    /\ UNCHANGED <<bvars, wvars, paymentsEnabled, awaiting, pay, nInv>>

TextCreate(s, ok) ==
    /\ h[s].pc = "text_create"
    /\ CreatePayment(s, ok, "text_setlast")
    /\ UNCHANGED <<bvars, wvars, paymentsEnabled, db, awaiting, nInv>>

TextSetLast(s, applied) ==
    /\ h[s].pc = "text_setlast"
    /\ SetLastPayment(s, applied)
    /\ UNCHANGED <<bvars, wvars, paymentsEnabled, awaiting, nInv>>

\* ------------------------------------------------------ the environment
\* The user pays a payment whose URL the bot has shown, or a payment is
\* canceled (abandoned, expired, refused): succeeded and canceled are final.
GatewayAdvance(p) ==
    /\ pay[p].status \in OpenStatuses
    /\ \E st \in FinalStatuses :
        /\ st = "succeeded" => pay[p].urlShown
        /\ pay' = [pay EXCEPT ![p].status = st]
    /\ UNCHANGED <<bvars, wvars, paymentsEnabled, db, awaiting, nInv, h>>

\* ------------------------------------------------------------ behaviours
Next ==
    \/ \E s \in Slots, u \in Users : ReceiveStart(s, u)
    \/ \E s \in Slots, u \in Users : ReceivePay(s, u)
    \/ \E s \in Slots, u \in Users : ReceiveCheck(s, u)
    \/ \E s \in Slots, u \in Users, t \in TextInputs : ReceiveText(s, u, t)
    \/ \E s \in Slots, applied \in BOOLEAN : StartUpsert(s, applied)
    \/ \E s \in Slots, ok \in BOOLEAN : PayGet(s, ok)
    \/ \E s \in Slots, ok \in BOOLEAN : PayCreate(s, ok)
    \/ \E s \in Slots, applied \in BOOLEAN : PaySetLast(s, applied)
    \/ \E s \in Slots, ok \in BOOLEAN : CheckGet(s, ok)
    \/ \E s \in Slots, ok \in BOOLEAN : CheckStatus(s, ok)
    \/ \E s \in Slots, ok \in BOOLEAN : CheckInvite(s, ok)
    \/ \E s \in Slots, applied \in BOOLEAN : CheckMark(s, applied)
    \/ \E s \in Slots, applied \in BOOLEAN : TextSetEmail(s, applied)
    \/ \E s \in Slots, ok \in BOOLEAN : TextCreate(s, ok)
    \/ \E s \in Slots, applied \in BOOLEAN : TextSetLast(s, applied)
    \/ \E s \in Slots : Respond(s)
    \/ \E p \in PaymentIds : GatewayAdvance(p)

Spec == Init /\ [][Next]_vars

\* ------------------------------------------- on_check over every status
\* An account that has created its first payment and not paid yet, with the
\* gateway holding that payment in any of RawStatuses.
FirstPayment == 1

InitCheck ==
    /\ InitBroadcastIdle
    /\ InitWebhookIdle
    /\ paymentsEnabled = TRUE
    /\ db = [u \in Users |->
                [row |-> TRUE, customer_email |-> TextGood,
                 last_payment_id |-> FirstPayment, paid |-> FALSE,
                 invite_link |-> None]]
    /\ awaiting = [u \in Users |-> FALSE]
    /\ \E raw \in RawStatuses, u \in Users :
          pay = [p \in PaymentIds |->
                    IF p = FirstPayment
                    THEN [owner |-> u, email |-> TextGood, status |-> raw,
                          urlShown |-> TRUE]
                    ELSE NoPayment]
    /\ nInv = 0
    /\ h = [s \in Slots |-> Idle]

\* The check button, pressed any number of times, also twice at once.
NextCheck ==
    \/ \E s \in Slots, u \in Users : ReceiveCheck(s, u)
    \/ \E s \in Slots, ok \in BOOLEAN : CheckGet(s, ok)
    \/ \E s \in Slots, ok \in BOOLEAN : CheckStatus(s, ok)
    \/ \E s \in Slots, ok \in BOOLEAN : CheckInvite(s, ok)
    \/ \E s \in Slots, applied \in BOOLEAN : CheckMark(s, applied)
    \/ \E s \in Slots : Respond(s)

CheckSpec == InitCheck /\ [][NextCheck]_vars

\* ------------------------------------------------- admin broadcast flow
\* is_admin(user_id): membership in ADMIN_IDS.
\* (as it would be with every user taken for an admin)
is_admin_Anyone(u) == TRUE

is_admin(u) == u \in ADMIN_IDS

\* Messages an admin types as the broadcast text.
TextHi == <<"h", "i">>
TextHiPadded == <<" ", "h", "i", " ">>
TextBlank == <<" ">>
BroadcastTexts == {TextHi, TextHiPadded, TextBlank}

\* The ids of a set of rows, as a list in the order of the ids.
RECURSIVE IdsInOrder(_)
IdsInOrder(ids) ==
    IF ids = {}
    THEN << >>
    ELSE LET m == CHOOSE x \in ids : \A y \in ids : x <= y
         IN  <<m>> \o IdsInOrder(ids \ {m})

\* db_list_paid_user_ids: telegram_id of the rows with paid = true.
db_list_paid_user_ids(d) ==
    IdsInOrder({u \in DOMAIN d : d[u].row /\ d[u].paid})

\* db_list_unpaid_user_ids: telegram_id of the rows with paid null or false;
\* when that query raises, the fallback query: telegram_id of every row.
db_list_unpaid_user_ids(d, filtered) ==
    IF filtered
    THEN IdsInOrder({u \in DOMAIN d : d[u].row /\ ~d[u].paid})
    ELSE IdsInOrder({u \in DOMAIN d : d[u].row})

\* What a broadcast step shows user u in chat c.
Show(c, u, kind) == [NoShown EXCEPT !.chat = c, !.user = u, !.kind = kind]

\* The handler returned state st for the conversation of (c, u);
\* ConversationHandler.END drops the conversation.
SetConv(c, u, st) ==
    IF st = "END"
    THEN [conv EXCEPT ![c][u] = NoConv]
    ELSE [conv EXCEPT ![c][u].state = st]

\* context.user_data.pop("bcast_paid", None); pop("bcast_text", None).
PopDraft(ud, u) == [ud EXCEPT ![u] = NoDraft]

\* on_admin_broadcast_menu, the entry point: runs only while (c, u) has no
\* conversation. A non-admin gets the access-denied notice and END.
BcastMenu(c, u) ==
    /\ conv[c][u].state = "END"
    /\ IF ~is_admin(u)
       THEN /\ shown' = Show(c, u, "denied")
            /\ conv' = SetConv(c, u, "END")
       ELSE /\ shown' = Show(c, u, "choose_audience")
            /\ conv' = SetConv(c, u, "CHOOSE_AUDIENCE")
    /\ UNCHANGED <<user_data, run, pvars, wvars>>

\* on_broadcast_choose_paid / on_broadcast_choose_unpaid, in state
\* BCAST_CHOOSE_AUDIENCE: a non-admin gets END and no message.
BcastChoose(c, u, audience) ==
    /\ conv[c][u].state = "CHOOSE_AUDIENCE"
    /\ IF ~is_admin(u)
       THEN /\ conv' = SetConv(c, u, "END")
            /\ shown' = Show(c, u, "none")
            /\ UNCHANGED user_data
       ELSE /\ user_data' = [user_data EXCEPT ![u].bcast_paid = audience]
            /\ shown' = Show(c, u, "enter_text")
            /\ conv' = [conv EXCEPT ![c][u].state = "ENTER_TEXT",
                                    ![c][u].chosen = audience]
    /\ UNCHANGED <<run, pvars, wvars>>

\* on_broadcast_cancel, in every state of the conversation and as its
\* fallback: no is_admin test; the draft is dropped, the main menu shown.
BcastCancel(c, u) ==
    /\ conv[c][u].state # "END"
    /\ user_data' = PopDraft(user_data, u)
    /\ shown' = Show(c, u, "welcome")
    /\ conv' = SetConv(c, u, "END")
    /\ UNCHANGED <<run, pvars, wvars>>

\* on_broadcast_text, in state BCAST_ENTER_TEXT: a text that is empty once
\* stripped is asked for again; otherwise it is stored and the preview with
\* the send button shown.
on_broadcast_text(c, u, t) ==
    /\ conv[c][u].state = "ENTER_TEXT"
    /\ LET text == Strip(t)
       IN  IF ~is_admin(u)
           THEN /\ conv' = SetConv(c, u, "END")
                /\ shown' = Show(c, u, "none")
                /\ UNCHANGED user_data
           ELSE IF text = NoText
           THEN /\ shown' = Show(c, u, "ask_text")
                /\ UNCHANGED <<conv, user_data>>
           ELSE /\ user_data' = [user_data EXCEPT ![u].bcast_text = text]
                /\ shown' = Show(c, u, "preview")
                /\ conv' = [conv EXCEPT ![c][u].state = "CONFIRM",
                                        ![c][u].entered = text]
    /\ UNCHANGED run

\* The broadcast flow taken alone: a text message in state BCAST_ENTER_TEXT.
BcastText(c, u, t) ==
    /\ on_broadcast_text(c, u, t)
    /\ UNCHANGED <<pvars, wvars>>

\* on_broadcast_send, in state BCAST_CONFIRM, up to the audience query: the
\* audience and the text are read from user_data (no audience reads as
\* unpaid, no text ends the conversation). The conversation stays in
\* BCAST_CONFIRM until the handler returns.
BcastSendStart(c, u) ==
    /\ conv[c][u].state = "CONFIRM"
    /\ run.pc = "idle"
    /\ IF ~is_admin(u)
       THEN /\ conv' = SetConv(c, u, "END")
            /\ shown' = Show(c, u, "none")
            /\ UNCHANGED run
       ELSE IF user_data[u].bcast_text = NoText
       THEN /\ conv' = SetConv(c, u, "END")
            /\ shown' = Show(c, u, "no_text")
            /\ UNCHANGED run
       ELSE /\ run' = [NoRun EXCEPT !.pc = "list", !.chat = c, !.user = u,
                                    !.paid = (user_data[u].bcast_paid = "paid"),
                                    !.text = user_data[u].bcast_text]
            /\ UNCHANGED <<conv, shown>>
    /\ UNCHANGED <<user_data, pvars, wvars>>

\* user_ids = await safe_thread_call(db_list_..., default=[]); total =
\* len(user_ids); the "sending" message. outcome: the query returns, the
\* unpaid query raises and its fallback returns, or the call fails or times
\* out and user_ids is the default.
BcastList(outcome) ==
    /\ run.pc = "list"
    /\ outcome = "fallback" => ~run.paid
    /\ LET user_ids ==
            IF outcome = "failed" THEN << >>
            ELSE IF run.paid THEN db_list_paid_user_ids(db)
            ELSE db_list_unpaid_user_ids(db, outcome = "ok")
       IN  /\ run' = [run EXCEPT !.pc = "send", !.user_ids = user_ids,
                                 !.total = Len(user_ids)]
           /\ shown' = [Show(run.chat, run.user, "sending")
                            EXCEPT !.total = Len(user_ids)]
    /\ UNCHANGED <<conv, user_data, pvars, wvars>>

\* The entries of a list.
Range(ids) == {ids[i] : i \in 1..Len(ids)}

\* (as it would be if the loop read the audience again at every turn)
BcastSendOne_Requery(ok) ==
    /\ run.pc = "send"
    /\ Len(run.log) < Len(run.user_ids)
    /\ LET user_ids == IF run.paid THEN db_list_paid_user_ids(db)
                       ELSE db_list_unpaid_user_ids(db, TRUE)
           uid == run.user_ids[Len(run.log) + 1]
           left == SelectSeq(user_ids, LAMBDA x : x \notin Range(run.log) \cup {uid})
           now == Append(run.log, uid) \o left
       IN  run' = [run EXCEPT !.sent = IF ok THEN @ + 1 ELSE @,
                              !.failed = IF ok THEN @ ELSE @ + 1,
                              !.log = Append(@, uid),
                              !.user_ids = now,
                              !.total = Len(now)]
    /\ UNCHANGED <<conv, user_data, shown, pvars, wvars>>

\* (as it would be if a failed send ended the loop)
BcastSendOne_AbortsOnFailure(ok) ==
    /\ run.pc = "send"
    /\ Len(run.log) < Len(run.user_ids)
    /\ run' = IF ok
              THEN [run EXCEPT !.sent = @ + 1,
                               !.log = Append(@, run.user_ids[Len(run.log) + 1])]
              ELSE [run EXCEPT !.failed = @ + 1,
                               !.log = Append(@, run.user_ids[Len(run.log) + 1]),
                               !.user_ids = run.log \o <<run.user_ids[Len(run.log) + 1]>>]
    /\ UNCHANGED <<conv, user_data, shown, pvars, wvars>>

\* One turn of "for uid in user_ids": send_message under fail_after(10)
\* returns (sent += 1) or raises or times out (failed += 1).
BcastSendOne(ok) ==
    /\ run.pc = "send"
    /\ Len(run.log) < Len(run.user_ids)
    /\ run' = IF ok
              THEN [run EXCEPT !.sent = @ + 1,
                               !.log = Append(@, run.user_ids[Len(run.log) + 1])]
              ELSE [run EXCEPT !.failed = @ + 1,
                               !.log = Append(@, run.user_ids[Len(run.log) + 1])]
    /\ UNCHANGED <<conv, user_data, shown, pvars, wvars>>

\* After the loop: the summary, the draft dropped, ConversationHandler.END.
BcastFinish ==
    /\ run.pc = "send"
    /\ Len(run.log) = Len(run.user_ids)
    /\ shown' = [Show(run.chat, run.user, "summary")
                    EXCEPT !.total = run.total, !.sent = run.sent,
                           !.failed = run.failed]
    /\ user_data' = PopDraft(user_data, run.user)
    /\ conv' = SetConv(run.chat, run.user, "END")
    /\ run' = NoRun
    /\ UNCHANGED <<pvars, wvars>>

\* The buttons and messages of the broadcast flow.
BroadcastSteps == {"menu", "choose", "text", "cancel", "send"}

\* The state of the conversation in which broadcast_conv has a handler for
\* the step (cancel: every state but END).
HandledIn(step, state) ==
    CASE step = "menu" -> state = "END"
      [] step = "choose" -> state = "CHOOSE_AUDIENCE"
      [] step = "text" -> state = "ENTER_TEXT"
      [] step = "send" -> state = "CONFIRM"
      [] step = "cancel" -> state # "END"

\* An update of the broadcast flow for which broadcast_conv has no handler
\* in the state of its conversation: no handler runs, nothing is shown.
BcastIgnored(c, u, step) ==
    /\ ~HandledIn(step, conv[c][u].state)
    /\ shown' = Show(c, u, "none")
    /\ UNCHANGED <<conv, user_data, run, pvars, wvars>>

\* A row of a started account and a row of an account that has paid its
\* own payment.
StartedRow == [NoRow EXCEPT !.row = TRUE]
PaidRow(u) ==
    [row |-> TRUE, customer_email |-> TextGood, last_payment_id |-> u,
     paid |-> TRUE, invite_link |-> u]

\* The broadcast flow over every table of at most MaxAccounts accounts,
\* each absent, started or paid.
InitBroadcast ==
    /\ InitBroadcastIdle
    /\ InitWebhookIdle
    /\ paymentsEnabled = TRUE
    /\ \E absent \in SUBSET Accounts : \E paid \in SUBSET (Accounts \ absent) :
        /\ db = [u \in Accounts |->
                    IF u \in absent THEN NoRow
                    ELSE IF u \in paid THEN PaidRow(u) ELSE StartedRow]
        /\ pay = [p \in Accounts |->
                    IF p \in paid
                    THEN [owner |-> p, email |-> TextGood,
                          status |-> "succeeded", urlShown |-> TRUE]
                    ELSE NoPayment]
        /\ nInv = Cardinality(paid)
    /\ awaiting = [u \in Accounts |-> FALSE]
    /\ h = [s \in Slots |-> Idle]

NextBroadcast ==
    \/ \E c \in Chats, u \in Senders : BcastMenu(c, u)
    \/ \E c \in Chats, u \in Senders, audience \in {"paid", "unpaid"} :
        BcastChoose(c, u, audience)
    \/ \E c \in Chats, u \in Senders, t \in BroadcastTexts : BcastText(c, u, t)
    \/ \E c \in Chats, u \in Senders : BcastCancel(c, u)
    \/ \E c \in Chats, u \in Senders : BcastSendStart(c, u)
    \/ \E outcome \in {"ok", "fallback", "failed"} : BcastList(outcome)
    \/ \E ok \in BOOLEAN : BcastSendOne(ok)
    \/ BcastFinish
    \/ \E c \in Chats, u \in Senders, step \in BroadcastSteps :
        BcastIgnored(c, u, step)

BroadcastSpec == InitBroadcast /\ [][NextBroadcast]_vars

\* on_broadcast_send is a coroutine the event loop resumes after each
\* awaited call, and each of its calls is bounded by a timeout
\* (safe_thread_call, fail_after(10), EDIT_TIMEOUT_SEC): a run that can take
\* its next step takes it.
BroadcastLive ==
    /\ BroadcastSpec
    /\ WF_vars(\E outcome \in {"ok", "fallback", "failed"} : BcastList(outcome))
    /\ WF_vars(\E ok \in BOOLEAN : BcastSendOne(ok))
    /\ WF_vars(BcastFinish)

\* ------------------------------------- a broadcast run among user updates
\* A row with an email and a payment of its own, not yet marked paid.
PayingRow(u) ==
    [row |-> TRUE, customer_email |-> TextGood, last_payment_id |-> u,
     paid |-> FALSE, invite_link |-> None]

\* The admin has started the bot and has paid or not; every other account
\* is absent, started, or has a succeeded payment its user has not checked.
InitSnapshot ==
    /\ InitBroadcastIdle
    /\ InitWebhookIdle
    /\ paymentsEnabled = TRUE
    /\ \E paid \in SUBSET ADMIN_IDS :
       \E absent \in SUBSET (Accounts \ ADMIN_IDS) :
       \E paying \in SUBSET (Accounts \ (ADMIN_IDS \cup absent)) :
        /\ db = [u \in Accounts |->
                    IF u \in absent THEN NoRow
                    ELSE IF u \in paid THEN PaidRow(u)
                    ELSE IF u \in paying THEN PayingRow(u)
                    ELSE StartedRow]
        /\ pay = [p \in Accounts |->
                    IF p \in paid \cup paying
                    THEN [owner |-> p, email |-> TextGood,
                          status |-> "succeeded", urlShown |-> TRUE]
                    ELSE NoPayment]
        /\ nInv = Cardinality(paid)
    /\ awaiting = [u \in Accounts |-> FALSE]
    /\ h = [s \in Slots |-> Idle]

\* The private chat of the admin with the bot.
AdminChat == 1

\* An admin composes and sends a broadcast while users start the bot and
\* check their payments.
NextSnapshot ==
    \/ \E u \in ADMIN_IDS : BcastMenu(AdminChat, u)
    \/ \E u \in ADMIN_IDS, audience \in {"paid", "unpaid"} :
        BcastChoose(AdminChat, u, audience)
    \/ \E u \in ADMIN_IDS : BcastText(AdminChat, u, TextHi)
    \/ \E u \in ADMIN_IDS : BcastSendStart(AdminChat, u)
    \/ \E outcome \in {"ok", "fallback", "failed"} : BcastList(outcome)
    \/ \E ok \in BOOLEAN : BcastSendOne(ok)
    \/ BcastFinish
    \/ \E s \in Slots, u \in Accounts \ ADMIN_IDS : ReceiveStart(s, u)
    \/ \E s \in Slots, u \in Accounts \ ADMIN_IDS : ReceiveCheck(s, u)
    \/ \E s \in Slots, applied \in BOOLEAN : StartUpsert(s, applied)
    \/ \E s \in Slots, ok \in BOOLEAN : CheckGet(s, ok)
    \/ \E s \in Slots, ok \in BOOLEAN : CheckStatus(s, ok)
    \/ \E s \in Slots, ok \in BOOLEAN : CheckInvite(s, ok)
    \/ \E s \in Slots, applied \in BOOLEAN : CheckMark(s, applied)
    \/ \E s \in Slots : Respond(s)

SnapshotSpec == InitSnapshot /\ [][NextSnapshot]_vars

\* ------------------------------------------- a text message, both groups
\* process_update offers an update to every handler group in turn, and in
\* each group runs the first handler that accepts it. A text message that is
\* no command: in group 0 only broadcast_conv can accept it, and does when
\* the conversation of (c, u) is in BCAST_ENTER_TEXT; in group 1
\* on_text_for_email accepts it always. No handler stops the dispatch.
DispatchText(s, c, u, t) ==
    /\ IF conv[c][u].state = "ENTER_TEXT"
       THEN on_broadcast_text(c, u, t)
       ELSE UNCHANGED bvars
    /\ on_text_for_email(s, u, t)
    /\ UNCHANGED wvars

\* A user who is an admin presses pay, composes a broadcast in the private
\* chat, and sends text.
NextText ==
    \/ \E s \in Slots, u \in Users : ReceivePay(s, u)
    \/ \E s \in Slots, ok \in BOOLEAN : PayGet(s, ok)
    \/ \E s \in Slots, ok \in BOOLEAN : PayCreate(s, ok)
    \/ \E s \in Slots, applied \in BOOLEAN : PaySetLast(s, applied)
    \/ \E u \in Users : BcastMenu(AdminChat, u)
    \/ \E u \in Users, audience \in {"paid", "unpaid"} :
        BcastChoose(AdminChat, u, audience)
    \/ \E s \in Slots, u \in Users, t \in TextInputs :
        DispatchText(s, AdminChat, u, t)
    \/ \E s \in Slots, applied \in BOOLEAN : TextSetEmail(s, applied)
    \/ \E s \in Slots, ok \in BOOLEAN : TextCreate(s, ok)
    \/ \E s \in Slots, applied \in BOOLEAN : TextSetLast(s, applied)
    \/ \E s \in Slots : Respond(s)

TextSpec == Init /\ [][NextText]_vars

\* ------------------------------------------- webhook endpoint, failures
\* data = await request.json(); update = Update.de_json(data, bot): a body
\* that is not JSON, or not an update, raises in the endpoint, which has no
\* try/except, and the framework answers 500. No handler runs.
ReceiveMalformed(s) ==
    /\ h[s].kind = "idle"
    /\ last' = [status |-> 500, raised |-> FALSE]
    /\ UNCHANGED <<bvars, edit, pvars>>

\* The last message of the handler is sent outside any try/except: the
\* reply_text calls of on_text_for_email, and the reply_text of cmd_start
\* that follows a failed reply_photo. (on_pay and on_check show their
\* messages through edit_main_message, which catches every exception; an
\* update on_text_for_email returns from at once sends nothing.)
Unguarded(hs) ==
    \/ hs.kind = "start"
    \/ hs.kind = "text" /\ hs.reply # Reply("none", None)

\* The handler's last send raises (Telegram unreachable, timed out, or the
\* user has blocked the bot): the exception leaves the handler;
\* process_update catches and logs it, and the endpoint returns 200.
SendRaises(s) ==
    /\ h[s].pc = "done"
    /\ Unguarded(h[s])
    /\ h' = [h EXCEPT ![s] = Idle]
    /\ last' = [status |-> 200, raised |-> TRUE]
    /\ UNCHANGED <<bvars, edit, paymentsEnabled, db, awaiting, pay, nInv>>

\* The endpoint under /start, pay and free-text updates, well-formed or
\* not, with Telegram failing or not.
NextWebhook ==
    \/ \E s \in Slots, u \in Users : ReceiveStart(s, u)
    \/ \E s \in Slots, u \in Users : ReceivePay(s, u)
    \/ \E s \in Slots, u \in Users, t \in TextInputs : ReceiveText(s, u, t)
    \/ \E s \in Slots : ReceiveMalformed(s)
    \/ \E s \in Slots, applied \in BOOLEAN : StartUpsert(s, applied)
    \/ \E s \in Slots, ok \in BOOLEAN : PayGet(s, ok)
    \/ \E s \in Slots, ok \in BOOLEAN : PayCreate(s, ok)
    \/ \E s \in Slots, applied \in BOOLEAN : PaySetLast(s, applied)
    \/ \E s \in Slots, applied \in BOOLEAN : TextSetEmail(s, applied)
    \/ \E s \in Slots, ok \in BOOLEAN : TextCreate(s, ok)
    \/ \E s \in Slots, applied \in BOOLEAN : TextSetLast(s, applied)
    \/ \E s \in Slots : Respond(s)
    \/ \E s \in Slots : SendRaises(s)

WebhookSpec == Init /\ [][NextWebhook]_vars

\* ------------------------------------------------------ edit_main_message
\* Message bodies, as sequences of characters, and keyboards, by name.
BodyPlain == <<"h", "i">>
BodyMarkup == <<"<", "b", ">">>
EditBodies == {BodyPlain, BodyMarkup}
Keyboards == {"main_keyboard", "back_keyboard"}

\* The message under the button: a photo carries a caption, a text message
\* carries text, anything else (or no accessible message) carries neither.
MessageKinds == {"photo", "text", "other"}

\* e(s) = html.escape(s, quote=False), character by character.
e(body) ==
    [i \in 1..Len(body) |->
        CASE body[i] = "&" -> "&amp;"
          [] body[i] = "<" -> "&lt;"
          [] body[i] = ">" -> "&gt;"
          [] OTHER -> body[i]]

\* The try blocks of edit_main_message, in the order of the code.
EditSteps == <<"caption_html", "text_html", "caption_plain", "text_plain", "reply_markup">>

StepIndex(step) == CHOOSE i \in 1..Len(EditSteps) : EditSteps[i] = step

\* Where control goes after the try block of a step is left without return.
AfterStep(step) ==
    IF step = "reply_markup" THEN "returned" ELSE EditSteps[StepIndex(step) + 1]

\* The if inside the try block: getattr(msg, "caption" / "text", None) is not
\* None. The last block has no condition.
Applicable(ed, step) ==
    CASE step \in {"caption_html", "caption_plain"} -> ed.caption
      [] step \in {"text_html", "text_plain"} -> ed.text
      [] OTHER -> TRUE

\* What the step asks Telegram to show.
EditRequest(ed, step) ==
    CASE step \in {"caption_html", "text_html"} ->
            [step |-> step, body |-> ed.body, parse_mode |-> "HTML", keyboard |-> ed.keyboard]
      [] step \in {"caption_plain", "text_plain"} ->
            [step |-> step, body |-> e(ed.body), parse_mode |-> "none", keyboard |-> ed.keyboard]
      [] OTHER ->
            [step |-> step, body |-> NoText, parse_mode |-> "none", keyboard |-> ed.keyboard]

\* A handler calls edit_main_message(q, text, keyboard).
EditCall(kind, body, keyboard) ==
    /\ edit.pc \in {"idle", "returned"}
    /\ edit' = [pc |-> "caption_html", caption |-> (kind = "photo"),
                text |-> (kind = "text"), body |-> body, keyboard |-> keyboard,
                tried |-> << >>, done |-> << >>, logged |-> << >>]
    /\ UNCHANGED <<last, pvars, bvars>>

\* A try block whose condition is false does nothing.
EditSkip ==
    /\ edit.pc \notin {"idle", "returned"}
    /\ ~Applicable(edit, edit.pc)
    /\ edit' = [edit EXCEPT !.pc = AfterStep(edit.pc)]
    /\ UNCHANGED <<last, pvars, bvars>>

\* Mutation of EditStep: a successful edit does not return.
EditStep_NoReturn(outcome) ==
    /\ edit.pc \notin {"idle", "returned"}
    /\ Applicable(edit, edit.pc)
    /\ IF outcome = "ok"
       THEN edit' = [edit EXCEPT !.pc = AfterStep(edit.pc),
                                 !.tried = Append(@, edit.pc),
                                 !.done = Append(@, EditRequest(edit, edit.pc))]
       ELSE edit' = [edit EXCEPT !.pc = AfterStep(edit.pc),
                                 !.tried = Append(@, edit.pc),
                                 !.logged = Append(@, edit.pc)]
    /\ UNCHANGED <<last, pvars, bvars>>

\* A try block whose condition is true: the edit is awaited under
\* anyio.fail_after; it returns (and so does the function), raises, or times
\* out; except Exception prints the step's log line and control falls
\* through to the next block.
EditStep(outcome) ==
    /\ edit.pc \notin {"idle", "returned"}
    /\ Applicable(edit, edit.pc)
    /\ IF outcome = "ok"
       THEN edit' = [edit EXCEPT !.pc = "returned",
                                 !.tried = Append(@, edit.pc),
                                 !.done = Append(@, EditRequest(edit, edit.pc))]
       ELSE edit' = [edit EXCEPT !.pc = AfterStep(edit.pc),
                                 !.tried = Append(@, edit.pc),
                                 !.logged = Append(@, edit.pc)]
    /\ UNCHANGED <<last, pvars, bvars>>

EditOutcomes == {"ok", "error", "timeout"}

NextEdit ==
    \/ \E kind \in MessageKinds, body \in EditBodies, keyboard \in Keyboards :
          EditCall(kind, body, keyboard)
    \/ EditSkip
    \/ \E outcome \in EditOutcomes : EditStep(outcome)

EditSpec == Init /\ [][NextEdit]_vars

\* ---------------------------------------------------------------- claims
\* The handler in slot s takes its step from pc a to pc b.
Step(s, a, b) == h[s].pc = a /\ h'[s].pc = b

\* The handler in slot s reads the account record (db_get_user in on_pay or
\* on_check), with or without success.
ReadsRecord(s) ==
    /\ h[s].pc \in {"pay_get", "check_get"}
    /\ h'[s].pc # h[s].pc

InProgress(s) == h[s].pc \notin {"idle", "done"}

C2_InviteLinkNeverOverwritten ==
    [][\A u \in Users :
        db[u].invite_link # None => db'[u].invite_link = db[u].invite_link]_vars

\* C3 as stated: a paid account has a last_payment_id, and that payment is
\* succeeded at the gateway.
C3_PaidImpliesConfirmedPayment ==
    \A u \in Users :
        db[u].paid =>
            /\ db[u].last_payment_id # None
            /\ pay[db[u].last_payment_id].status = "succeeded"

\* Some payment the bot created for u is succeeded at the gateway.
HasSucceededPayment(u) ==
    \E p \in PaymentIds : pay[p].owner = u /\ pay[p].status = "succeeded"

\* C4 as stated: when a payment created for the account is succeeded at the
\* gateway, a check action whose store read and gateway query both succeed
\* does not end with the account unpaid (it goes on to mark it paid, or the
\* account is paid already).
C4_ChargedUserGetsAccess ==
    [][\A s \in Slots :
        ( /\ CheckGet(s, TRUE) \/ CheckStatus(s, TRUE)
          /\ HasSucceededPayment(h[s].user)
          /\ h'[s].pc = "done" )
        => db'[h[s].user].paid]_vars

\* C5 as stated: at most one handler execution is in progress at any time.
C5_OneUpdateAtATime ==
    Cardinality({s \in Slots : InProgress(s)}) <= 1

\* The last step of a check action that got status succeeded: the
\* db_mark_paid call and the message to the user.
EndsSucceededCheck(s) == Step(s, "check_mark", "done")

EmailTexts == {TextGood, TextPadded}
NonEmailTexts == TextInputs \ EmailTexts

\* C8: while the user is awaiting an email, a text that is not an email is
\* answered with the re-prompt and changes nothing (the flag stays set, the
\* record and the gateway are untouched, the handler is over), and a text
\* that is one, such as a@b.co, is accepted: the handler goes on to persist
\* it.
C8_NonEmailRejected ==
    [][\A s \in Slots, u \in Users, t \in TextInputs :
        (ReceiveText(s, u, t) /\ awaiting[u]) =>
            /\ t \in NonEmailTexts =>
                /\ h'[s].pc = "done"
                /\ h'[s].reply = Reply("bad_email", None)
                /\ awaiting'[u]
                /\ db' = db
                /\ pay' = pay
            /\ t \in EmailTexts =>
                /\ h'[s].pc = "text_setemail"
                /\ h'[s].email = TextGood]_vars

\* A text has been rejected with the re-prompt and the user is still
\* awaiting an email, with none on file and no payment.
C8_Witness ==
    \E s \in Slots :
        /\ h[s].kind = "text" /\ h[s].pc = "done"
        /\ h[s].reply = Reply("bad_email", None)
        /\ awaiting[h[s].user]
        /\ db[h[s].user].customer_email = NoText
        /\ \A p \in PaymentIds : pay[p].status = "none"

\* The last step of an email-capture action, whichever it is.
EndsText(s) ==
    /\ h[s].kind = "text"
    /\ InProgress(s)
    /\ h'[s].pc = "done"

C10_PayWithoutEmailAsksForEmail ==
    [][\A s \in Slots, ok \in BOOLEAN :
        ( /\ PayGet(s, ok)
          /\ ~db[h[s].user].paid
          /\ db[h[s].user].customer_email = NoText )
        =>  /\ paymentsEnabled
            /\ awaiting'[h[s].user]
            /\ h'[s].pc = "done"
            /\ h'[s].reply = Reply("need_email", None)
            /\ db' = db
            /\ pay' = pay]_vars

\* A pay action has ended with the email-request prompt for an account that
\* is not paid and has no email on file, and the flag is set.
C10_Witness ==
    \E s \in Slots :
        /\ h[s].kind = "pay" /\ h[s].pc = "done"
        /\ h[s].reply = Reply("need_email", None)
        /\ awaiting[h[s].user]
        /\ ~db[h[s].user].paid
        /\ db[h[s].user].customer_email = NoText
        /\ \A p \in PaymentIds : pay[p].status = "none"

\* The status on_check got for the payment of the handler in slot s.
StatusSeen(s) == yk_get_status(pay, h[s].pid)

\* C11: a check whose gateway query returns a status other than succeeded
\* and canceled changes nothing (record, flag, gateway, invite links) and
\* ends: with the not-completed message and its retry button for pending
\* and waiting_for_capture, with the status itself for any other value.
C11_OpenStatusNoTransition ==
    [][\A s \in Slots :
        (CheckStatus(s, TRUE) /\ StatusSeen(s) \notin {"succeeded", "canceled"}) =>
            /\ db' = db
            /\ awaiting' = awaiting
            /\ pay' = pay
            /\ nInv' = nInv
            /\ h'[s].pc = "done"
            /\ h'[s].reply =
                 IF StatusSeen(s) \in {"pending", "waiting_for_capture"}
                 THEN Reply("not_completed", None)
                 ELSE Reply("status", StatusSeen(s))]_vars

\* A check of a payment in waiting_for_capture has ended with the
\* not-completed message, the account unpaid and no invite link created.
C11_Witness ==
    \E s \in Slots :
        /\ h[s].kind = "check" /\ h[s].pc = "done"
        /\ h[s].reply = Reply("not_completed", None)
        /\ pay[db[h[s].user].last_payment_id].status = "waiting_for_capture"
        /\ ~db[h[s].user].paid
        /\ db[h[s].user].invite_link = None
        /\ nInv = 0

\* C12 as stated: after a check that got canceled the account is not paid
\* and the canceled payment is no longer the payment of the account.
C12_CanceledReturnsToNew ==
    [][\A s \in Slots :
        (CheckStatus(s, TRUE) /\ StatusSeen(s) = "canceled") =>
            /\ ~db'[h[s].user].paid
            /\ db'[h[s].user].last_payment_id # h[s].pid]_vars

\* C12 as amended: a check that got canceled ends with the canceled message
\* and writes nothing (last_payment_id still names the canceled payment); a
\* pay action that reads the unpaid record with its email goes to the
\* gateway whatever last_payment_id is; a gateway call that returns has
\* created a new pending payment under an unused id; a db_set_last_payment
\* write that is not lost makes it the payment of the account.
C12_CanceledThenPayCreatesNew ==
    [][\A s \in Slots :
        /\ (CheckStatus(s, TRUE) /\ StatusSeen(s) = "canceled") =>
            /\ h'[s].pc = "done"
            /\ h'[s].reply = Reply("canceled", None)
            /\ db' = db
            /\ awaiting' = awaiting
            /\ nInv' = nInv
        /\ ( /\ PayGet(s, TRUE)
             /\ ~db[h[s].user].paid
             /\ db[h[s].user].customer_email # NoText ) =>
            /\ h'[s].pc = "pay_create"
            /\ h'[s].email = db[h[s].user].customer_email
        /\ PayCreate(s, TRUE) =>
            /\ pay[h'[s].pid].status = "none"
            /\ pay'[h'[s].pid].status = "pending"
            /\ pay'[h'[s].pid].owner = h[s].user
            /\ \A p \in PaymentIds : p # h'[s].pid => pay'[p] = pay[p]
        /\ PaySetLast(s, TRUE) =>
            db'[h[s].user].last_payment_id = h[s].pid]_vars

\* A check has answered that the payment was canceled, and a pay action
\* after it has shown the URL of a new pending payment, which is now the
\* payment of the unpaid account.
C12_Witness ==
    \E s \in Slots, r \in Slots :
        /\ h[r].kind = "check" /\ h[r].pc = "done"
        /\ h[r].reply = Reply("canceled", None)
        /\ h[s].kind = "pay" /\ h[s].pc = "done" /\ h[s].user = h[r].user
        /\ h[s].reply[1] = "pay_url"
        /\ db[h[s].user].last_payment_id = h[s].reply[2]
        /\ pay[h[s].reply[2]].status = "pending"
        /\ ~db[h[s].user].paid
        /\ \E q \in PaymentIds :
            /\ q < h[s].reply[2]
            /\ pay[q].owner = h[s].user
            /\ pay[q].status = "canceled"

\* C13: whatever status the gateway holds, a check whose query returns
\* takes the one branch of that status, read in lower case without
\* surrounding blanks: succeeded goes on to the invite link, pending and
\* waiting_for_capture end with the not-completed message, canceled ends
\* with the canceled message, anything else (the empty status too) ends
\* with the status shown; and a handler at the query can always take it.
C13_StatusMappingTotal ==
    /\ [](\A s \in Slots :
            h[s].pc = "check_status" =>
                (ENABLED CheckStatus(s, TRUE) /\ ENABLED CheckStatus(s, FALSE)))
    /\ [][\A s \in Slots :
            CheckStatus(s, TRUE) =>
                LET raw == pay[h[s].pid].status
                IN  /\ raw \in RawStatuses
                    /\ raw \in {"succeeded", "SUCCEEDED"} =>
                        h'[s].pc = "check_invite"
                    /\ raw \in {"pending", " pending ", "waiting_for_capture"} =>
                        /\ h'[s].pc = "done"
                        /\ h'[s].reply = Reply("not_completed", None)
                    /\ raw \in {"canceled", "Canceled"} =>
                        /\ h'[s].pc = "done"
                        /\ h'[s].reply = Reply("canceled", None)
                    /\ raw \in {"refunded", ""} =>
                        /\ h'[s].pc = "done"
                        /\ h'[s].reply = Reply("status", raw)]_vars

\* A check of a payment with an empty status has ended showing that status.
C13_Witness ==
    \E s \in Slots :
        /\ h[s].kind = "check" /\ h[s].pc = "done"
        /\ h[s].reply = Reply("status", "")
        /\ pay[db[h[s].user].last_payment_id].status = ""
        /\ ~db[h[s].user].paid

\* The handler in slot s ends on a gateway call that raised or timed out.
GatewayFails(s) ==
    PayCreate(s, FALSE) \/ TextCreate(s, FALSE) \/ CheckStatus(s, FALSE)

\* C14 as stated: an update that ends on a failed gateway call shows a
\* failure message and leaves the record and the awaiting-email flag as
\* they were when it began; for an email-capture update, which goes to the
\* gateway only when the flag was set, that is a flag still set.
C14_GatewayFailureNoStateChange ==
    [][\A s \in Slots :
        GatewayFails(s) =>
            /\ h'[s].reply \in {Reply("create_failed", None), Reply("check_failed", None)}
            /\ db' = db
            /\ awaiting' = awaiting
            /\ h[s].kind = "text" => awaiting'[h[s].user]]_vars

\* C14 as amended, step by step: the failed gateway call ends the handler
\* with the failure message and writes neither record nor flag; on_pay and
\* on_check have written nothing before it; on_text_for_email has, before
\* it, cleared the flag and written customer_email (when that write was not
\* lost) and nothing else.
C14_GatewayFailureStepByStep ==
    [][\A s \in Slots :
        /\ GatewayFails(s) =>
            /\ h'[s].pc = "done"
            /\ h'[s].reply =
                 IF h[s].kind = "check"
                 THEN Reply("check_failed", None)
                 ELSE Reply("create_failed", None)
            /\ db' = db
            /\ awaiting' = awaiting
        /\ Step(s, "pay_get", "pay_create") \/ Step(s, "check_get", "check_status") =>
            /\ db' = db
            /\ awaiting' = awaiting
        /\ Step(s, "idle", "text_setemail") =>
            /\ db' = db
            /\ awaiting[h'[s].user]
            /\ awaiting' = [awaiting EXCEPT ![h'[s].user] = FALSE]
        /\ Step(s, "text_setemail", "text_create") =>
            /\ awaiting' = awaiting
            /\ db' \in {db, db_set_customer_email(db, h[s].user, h[s].email)}]_vars

\* An email-capture action has ended on a failed gateway call: the flag it
\* found set is cleared and the email is in the record, with no payment.
C14_Witness ==
    \E s \in Slots :
        /\ h[s].kind = "text" /\ h[s].pc = "done"
        /\ h[s].reply = Reply("create_failed", None)
        /\ ~awaiting[h[s].user]
        /\ db[h[s].user].customer_email = TextGood
        /\ db[h[s].user].last_payment_id = None
        /\ \A p \in PaymentIds : pay[p].status = "none"

\* C15: when the db_set_customer_email write of an accepted email is lost,
\* the handler still goes to the gateway with that email; a gateway call
\* that returns has created the payment under that email, and the handler
\* ends showing that payment's URL.
C15_LostEmailWriteStillPays ==
    [][\A s \in Slots :
        /\ TextSetEmail(s, FALSE) =>
            /\ h'[s].pc = "text_create"
            /\ h'[s].email = h[s].email
            /\ h[s].email # NoText
            /\ db' = db
        /\ TextCreate(s, TRUE) =>
            /\ h'[s].pc = "text_setlast"
            /\ pay'[h'[s].pid].email = h[s].email
            /\ pay'[h'[s].pid].owner = h[s].user
            /\ pay'[h'[s].pid].status = "pending"
        /\ Step(s, "text_setlast", "done") =>
            /\ h'[s].reply = Reply("pay_url", h[s].pid)
            /\ pay'[h[s].pid].urlShown]_vars

\* An email-capture action has ended showing the URL of a payment created
\* under the email the user sent, while the record holds no email.
C15_Witness ==
    \E s \in Slots :
        /\ h[s].kind = "text" /\ h[s].pc = "done"
        /\ h[s].reply[1] = "pay_url"
        /\ db[h[s].user].customer_email = NoText
        /\ pay[h[s].reply[2]].email = TextGood
        /\ pay[h[s].reply[2]].owner = h[s].user
        /\ pay[h[s].reply[2]].urlShown

\* C16: /start on an account that has its record leaves the whole table as
\* it was (one record under that id; customer_email, last_payment_id, paid
\* and invite_link untouched), whether the write lands or is lost; on an
\* account without a record it creates the record, with none of those set.
C16_RestartKeepsRecord ==
    [][\A s \in Slots, applied \in BOOLEAN :
        StartUpsert(s, applied) =>
            /\ db[h[s].user].row => db' = db
            /\ (~db[h[s].user].row /\ applied) =>
                 db' = [db EXCEPT ![h[s].user] = [NoRow EXCEPT !.row = TRUE]]
            /\ h'[s].reply = Reply("welcome", None)]_vars

\* Two /start commands have been answered, at least one of them after the
\* account was paid, and the record still holds the email, the payment and
\* the invite link.
C16_Witness ==
    /\ \A s \in Slots :
        /\ h[s].kind = "start" /\ h[s].pc = "done"
        /\ h[s].reply = Reply("welcome", None)
    /\ \E u \in Users :
        /\ \A s \in Slots : h[s].user = u
        /\ db[u].row /\ db[u].paid
        /\ db[u].customer_email = TextGood
        /\ db[u].last_payment_id # None
        /\ db[u].invite_link # None

\* C17: with payments disabled every pay and check action ends at once with
\* the payments-disabled notice and changes nothing; the gateway holds no
\* payment, no awaiting-email flag is set, no record has an email, a
\* payment, paid or an invite link, and no invite link is created.
C17_DisabledPaymentsInert ==
    /\ [](~paymentsEnabled =>
            /\ \A p \in PaymentIds : pay[p] = NoPayment
            /\ \A u \in Users :
                /\ ~awaiting[u]
                /\ db[u] \in {NoRow, [NoRow EXCEPT !.row = TRUE]}
            /\ nInv = 0)
    /\ [][\A s \in Slots, u \in Users :
            (~paymentsEnabled /\ (ReceivePay(s, u) \/ ReceiveCheck(s, u))) =>
                /\ h'[s].pc = "done"
                /\ h'[s].reply = Reply("disabled", None)
                /\ db' = db
                /\ awaiting' = awaiting
                /\ pay' = pay
                /\ nInv' = nInv]_vars

\* With payments disabled, a pay action and a check action of a started
\* account have both been answered with the payments-disabled notice.
C17_Witness ==
    /\ ~paymentsEnabled
    /\ \E s \in Slots, r \in Slots :
        /\ h[s].kind = "pay" /\ h[r].kind = "check"
        /\ h[s].user = h[r].user
        /\ db[h[s].user].row
        /\ h[s].pc = "done" /\ h[r].pc = "done"
        /\ h[s].reply = Reply("disabled", None)
        /\ h[r].reply = Reply("disabled", None)

\* A user who is not in ADMIN_IDS takes a step of the broadcast flow in
\* chat c: a handler runs for it, or broadcast_conv has none in that state.
NonAdminStep(c, u) ==
    \/ BcastMenu(c, u)
    \/ \E audience \in {"paid", "unpaid"} : BcastChoose(c, u, audience)
    \/ \E t \in BroadcastTexts : BcastText(c, u, t)
    \/ BcastCancel(c, u)
    \/ BcastSendStart(c, u)
    \/ \E step \in BroadcastSteps : BcastIgnored(c, u, step)

\* C18 as stated: whatever broadcast step a non-admin attempts, the
\* conversation is idle afterwards, the access-denied notice is shown and
\* no broadcast is sent.
C18_NonAdminAlwaysDenied ==
    [][\A c \in Chats, u \in Senders \ ADMIN_IDS :
        NonAdminStep(c, u) =>
            /\ conv'[c][u].state = "END"
            /\ shown' = Show(c, u, "denied")
            /\ run' = run]_vars

\* C18 as amended: a non-admin never has a conversation, a draft or a send
\* in progress; opening the menu shows them the access-denied notice; every
\* other step finds no conversation, so no handler runs and nothing is
\* shown; no step of theirs changes a conversation, a draft or a send.
C18_NonAdminNeverBroadcasts ==
    /\ [](\A u \in Senders \ ADMIN_IDS :
            /\ \A c \in Chats : conv[c][u] = NoConv
            /\ user_data[u] = NoDraft
            /\ run.user # u)
    /\ [][\A c \in Chats, u \in Senders \ ADMIN_IDS :
            NonAdminStep(c, u) =>
                /\ \/ BcastMenu(c, u) /\ shown' = Show(c, u, "denied")
                   \/ /\ \E step \in BroadcastSteps \ {"menu"} :
                            BcastIgnored(c, u, step)
                      /\ shown' = Show(c, u, "none")
                /\ conv' = conv
                /\ user_data' = user_data
                /\ run' = run]_vars

\* A non-admin has been shown the access-denied notice and has no
\* conversation and no draft, while an admin has a broadcast going out.
C18_Witness ==
    \E c \in Chats, u \in Senders \ ADMIN_IDS :
        /\ shown = Show(c, u, "denied")
        /\ conv[c][u] = NoConv
        /\ user_data[u] = NoDraft
        /\ run.pc = "send"
        /\ run.user \in ADMIN_IDS

\* C19 as stated: a send starts only in a conversation in which an audience
\* was chosen and then a non-empty text entered, and it uses that audience
\* and that text; a cancel ends the conversation, drops the draft and
\* sends nothing.
C19_SendUsesConversationDraft ==
    [][\A c \in Chats, u \in Senders :
        /\ (BcastSendStart(c, u) /\ run'.pc = "list") =>
            /\ conv[c][u].chosen # "unset"
            /\ conv[c][u].entered # NoText
            /\ run'.paid = (conv[c][u].chosen = "paid")
            /\ run'.text = conv[c][u].entered
        /\ BcastCancel(c, u) =>
            /\ conv'[c][u] = NoConv
            /\ user_data'[u] = NoDraft
            /\ run' = run]_vars

\* No id occurs twice in the list.
NoRepeats(ids) ==
    \A i \in 1..Len(ids), j \in 1..Len(ids) : ids[i] = ids[j] => i = j

\* C20: a broadcast run takes total as the length of the list it read; it
\* calls send_message for the ids of the list one by one in list order,
\* each once, counting each call as sent or as failed and going on after a
\* failure; it can always take its next turn, and after the last it shows
\* the summary with total the length of the list and sent + failed = total
\* (0, 0, 0 for an empty list); every run that has started finishes.
C20_RunAttemptsEachOnce ==
    /\ (run.pc # "idle") ~> (run.pc = "idle")
    /\ [](run.pc = "send" =>
            /\ run.total = Len(run.user_ids)
            /\ NoRepeats(run.user_ids)
            /\ Len(run.log) <= Len(run.user_ids)
            /\ run.log = SubSeq(run.user_ids, 1, Len(run.log))
            /\ run.sent + run.failed = Len(run.log)
            /\ IF Len(run.log) < Len(run.user_ids)
               THEN ENABLED BcastSendOne(TRUE) /\ ENABLED BcastSendOne(FALSE)
               ELSE ENABLED BcastFinish)
    /\ [][
           /\ \A ok \in BOOLEAN :
                BcastSendOne(ok) =>
                    /\ run'.pc = "send"
                    /\ run'.user_ids = run.user_ids
                    /\ run'.total = run.total
                    /\ run'.log = Append(run.log, run.user_ids[Len(run.log) + 1])
                    /\ run'.sent = run.sent + (IF ok THEN 1 ELSE 0)
                    /\ run'.failed = run.failed + (IF ok THEN 0 ELSE 1)
           /\ BcastFinish =>
                /\ run.log = run.user_ids
                /\ shown'.kind = "summary"
                /\ shown'.total = Len(run.user_ids)
                /\ shown'.sent + shown'.failed = shown'.total
                /\ run.user_ids = << >> =>
                    (shown'.total = 0 /\ shown'.sent = 0 /\ shown'.failed = 0)
                /\ run' = NoRun]_vars

\* A run over two recipients of which the first send failed and the second
\* went through has shown its summary: total 2, sent 1, failed 1.
C20_Witness ==
    /\ shown.kind = "summary"
    /\ shown.total = 2
    /\ shown.sent = 1
    /\ shown.failed = 1
    /\ run = NoRun

\* The accounts of the table with paid = true, and those with a record whose
\* paid is false or null.
PaidAccounts == {u \in DOMAIN db : db[u].row /\ db[u].paid}
UnpaidAccounts == {u \in DOMAIN db : db[u].row /\ ~db[u].paid}

\* C21 as stated: the list a broadcast run reads holds exactly the paid
\* accounts when the audience is paid and exactly the unpaid accounts when
\* it is unpaid.
C21_AudienceMatchesPaidFlag ==
    [][\A outcome \in {"ok", "fallback", "failed"} :
        BcastList(outcome) =>
            Range(run'.user_ids) = IF run.paid THEN PaidAccounts ELSE UnpaidAccounts]_vars

\* C26 as stated: when on_pay or on_text_for_email ends showing a payment
\* URL, last_payment_id of the record is the id of that payment.
C26_ShownUrlIsLastPayment ==
    [][\A s \in Slots :
        (h[s].pc \in {"pay_setlast", "text_setlast"} /\ h'[s].pc = "done") =>
            /\ h'[s].reply = Reply("pay_url", h[s].pid)
            /\ db'[h[s].user].last_payment_id = h[s].pid]_vars

\* C23 as stated: every response of the webhook endpoint has status 200.
C23_AlwaysResponds200 == last.status \in {None, 200}

\* C24 as stated: no exception leaves a handler.
C24_NoHandlerRaises == ~last.raised

\* C25: edit_main_message attempts its steps in the order caption, text,
\* plain caption, plain text, keyboard only; a step is attempted only when
\* every step attempted before it failed (and was logged); the first success
\* ends the call, so there is at most one successful edit; every outcome of
\* every step is handled, so the call goes on to its return; and when the
\* keyboard-only step fails, its log line is written.
C25_EditFallbackOrder ==
    /\ [](/\ \A i, j \in 1..Len(edit.tried) :
                i < j => StepIndex(edit.tried[i]) < StepIndex(edit.tried[j])
          /\ Len(edit.done) <= 1
          /\ edit.done # << >> =>
                /\ edit.pc = "returned"
                /\ edit.done[1].step = edit.tried[Len(edit.tried)]
                /\ edit.logged = SubSeq(edit.tried, 1, Len(edit.tried) - 1)
          /\ edit.done = << >> => edit.logged = edit.tried
          /\ (edit.pc = "returned" /\ edit.done = << >>) =>
                /\ edit.tried # << >>
                /\ edit.tried[Len(edit.tried)] = "reply_markup"
                /\ edit.logged[Len(edit.logged)] = "reply_markup"
          /\ edit.pc \notin {"idle", "returned"} =>
                \/ ENABLED EditSkip
                \/ \A outcome \in EditOutcomes : ENABLED EditStep(outcome))
    /\ [][\A outcome \in EditOutcomes :
            EditStep(outcome) =>
                /\ edit'.tried = Append(edit.tried, edit.pc)
                /\ edit.done = << >>
                /\ outcome = "ok" => edit'.pc = "returned"]_vars

\* Every step of a call on a photo message failed, the last one included.
C25_Witness ==
    /\ edit.pc = "returned"
    /\ edit.tried = <<"caption_html", "caption_plain", "reply_markup">>
    /\ edit.done = << >>
    /\ edit.logged = edit.tried

\* C22: the recipients of a run are the list read once at confirmation:
\* while the run is sending, no step, of the run or of any user's update,
\* changes the list or the total; every send goes to the next entry of that
\* list; and the summary reports the length of that list, with every entry
\* attempted.
C22_AudienceIsSnapshot ==
    [][/\ (run.pc = "send" /\ run'.pc = "send") =>
            /\ run'.user_ids = run.user_ids
            /\ run'.total = run.total
       /\ run'.user_ids # run.user_ids => (run.pc = "list" \/ run'.pc = "idle")
       /\ (\E ok \in BOOLEAN : BcastSendOne(ok)) =>
            run'.log = Append(run.log, run.user_ids[Len(run.log) + 1])
       /\ BcastFinish =>
            /\ shown'.total = Len(run.user_ids)
            /\ run.total = Len(run.user_ids)
            /\ run.log = run.user_ids]_vars

\* A run to the paid audience is still sending, and an account outside its
\* list has become paid since the list was read.
C22_Witness ==
    /\ run.pc = "send"
    /\ run.paid
    /\ Len(run.log) < Len(run.user_ids)
    /\ \E u \in Accounts : db[u].paid /\ u \notin Range(run.user_ids)

\* C27 as stated: a text message that arrives while the sender's broadcast
\* conversation is in the enter-text state is not processed by email
\* capture (the awaiting flag stays, no reply, no email or payment to
\* come); and a text message from a user whose flag is not set starts no
\* store write and no gateway call.
C27_EmailCaptureKeepsOut ==
    [][\A s \in Slots, c \in Chats, u \in Users, t \in TextInputs :
        DispatchText(s, c, u, t) =>
            /\ conv[c][u].state = "ENTER_TEXT" =>
                /\ awaiting' = awaiting
                /\ h'[s].pc = "done"
                /\ h'[s].reply = Reply("none", None)
            /\ ~awaiting[u] =>
                /\ h'[s].pc = "done"
                /\ h'[s].reply = Reply("none", None)
                /\ UNCHANGED <<db, pay, awaiting>>]_vars

\* The second half alone.
C27_NoFlagNoEffect ==
    [][\A s \in Slots, c \in Chats, u \in Users, t \in TextInputs :
        (DispatchText(s, c, u, t) /\ ~awaiting[u]) =>
            /\ h'[s].pc = "done"
            /\ h'[s].reply = Reply("none", None)
            /\ UNCHANGED <<db, pay, awaiting>>]_vars

====
